---- MODULE Spec2Model ----
(***************************************************************************)
(* The task-queue abstraction of svix-server (queue/mod.rs): the task      *)
(* encoding, the producer's send, the consumer's receive_all, and the      *)
(* Delivery's ack / nack under the bounded retry schedule, over one of     *)
(* the three transports (Redis, RabbitMq, Omni).                           *)
(***************************************************************************)
EXTENDS Integers, Sequences, FiniteSets, TLC

\* ------------------------------------------------------------------ bounds
\* messages ever put on the transport (sends and foreign payloads together)
MaxMsgs == 2
\* largest delay (in milliseconds of the clock) a send may ask for
MaxDelay == 1
\* largest number of failures a transport call is scripted to make
MaxFail == 4
\* send / ack / nack calls that may be in progress at the same time
MaxCalls == 1
\* largest value of the random part of a generated identifier
MaxRand == 0
\* largest clock value explored
MaxTime == 1
\* largest number of tasks pending when the batch size is looked at
MaxPending == 130

\* --------------------------------------------------------------- constants
\* a schedule without its last delay
RETRY_SCHEDULE_short == <<10, 20>>

\* const RETRY_SCHEDULE: &[Duration] (milliseconds)
RETRY_SCHEDULE == <<10, 20, 40>>

\* a receive_all asking the transport for a batch twice as large
MAX_MESSAGES_doubled == 128 + 128

\* const MAX_MESSAGES: usize = 128, the batch size receive_all asks for
MAX_MESSAGES == 128

\* cfg::QueueBackend as new_pair maps it to a producer / consumer variant
\* (Redis and RedisCluster both build the Redis variant, Memory builds Omni)
Backends == {"Redis", "RabbitMq", "Omni"}

\* ErrorType as far as this layer looks at it: Queue(_) or anything else
ErrorTypes == {"Queue", "Generic"}

\* Error::queue(msg)
ErrQueue(msg) == [typ |-> "Queue", msg |-> msg]

\* an error a transport call returns, of the given kind
ErrTransport(typ) == [typ |-> typ, msg |-> "transport"]

\* should_retry retrying no error at all
should_retry_never(err) == FALSE

\* should_retry retrying every error, whatever its kind
should_retry_always(err) == TRUE

\* fn should_retry(err: &Error) -> bool
should_retry(err) == err.typ = "Queue"

\* ------------------------------------------------------------------- tasks
\* QueueTask::HealthCheck
HealthCheck == [variant |-> "HealthCheck"]

\* MessageTask::new_task: attempt_count starts at 0
MessageTask_new_task(msg_id, app_id, endpoint_id, trigger_type) ==
    [variant |-> "MessageV1", msg_id |-> msg_id, app_id |-> app_id,
     endpoint_id |-> endpoint_id, trigger_type |-> trigger_type,
     attempt_count |-> 0]

\* MessageTaskBatch::new_task; force_endpoint is an Option, "" standing for None
MessageTaskBatch_new_task(msg_id, app_id, force_endpoint, trigger_type) ==
    [variant |-> "MessageBatch", msg_id |-> msg_id, app_id |-> app_id,
     force_endpoint |-> force_endpoint, trigger_type |-> trigger_type]

\* QueueTask::task_type
task_type(task) == task.variant

\* enum MessageAttemptTriggerType
TriggerTypes == {"Scheduled", "Manual"}

\* every variant of QueueTask, each field taking two values (attempt_count is
\* a pub field: the consumer-side processor sends tasks with a count above 0)
AllTasks ==
    {HealthCheck}
        \cup {[MessageTask_new_task(m, a, e, t) EXCEPT !.attempt_count = n] :
                 m \in {"M1", "M2"}, a \in {"A1", "A2"}, e \in {"E1", "E2"},
                 t \in TriggerTypes, n \in {0, 1}}
        \cup {MessageTaskBatch_new_task(m, a, f, t) :
                 m \in {"M1", "M2"}, a \in {"A1", "A2"}, f \in {"", "E1"},
                 t \in TriggerTypes}

\* the tasks the producer is given in the runs explored
SampleTasks == { MessageTask_new_task("M1", "A1", "E1", "Scheduled") }

\* Option<Vec<u8>>: the payload of a transport message
NonePayload == [some |-> FALSE]
SomePayload(json) == [some |-> TRUE, json |-> json]

\* an encoding that always writes an attempt count of 0
EncodeTask_attempt_reset(task) ==
    CASE task.variant = "HealthCheck" -> [type |-> "healthCheck"]
      [] task.variant = "MessageV1" ->
            [type |-> "messageV1", msgId |-> task.msg_id, appId |-> task.app_id,
             endpointId |-> task.endpoint_id, triggerType |-> task.trigger_type,
             attemptCount |-> 0]
      [] task.variant = "MessageBatch" ->
            [type |-> "messageBatch", msgId |-> task.msg_id, appId |-> task.app_id,
             forceEndpoint |-> task.force_endpoint,
             triggerType |-> task.trigger_type]

\* serde_json::to_vec of a QueueTask: #[serde(tag = "type")] puts the variant
\* name in the object, #[serde(rename_all = "camelCase")] renames the
\* variants and the fields
EncodeTask(task) ==
    CASE task.variant = "HealthCheck" -> [type |-> "healthCheck"]
      [] task.variant = "MessageV1" ->
            [type |-> "messageV1", msgId |-> task.msg_id, appId |-> task.app_id,
             endpointId |-> task.endpoint_id, triggerType |-> task.trigger_type,
             attemptCount |-> task.attempt_count]
      [] task.variant = "MessageBatch" ->
            [type |-> "messageBatch", msgId |-> task.msg_id, appId |-> task.app_id,
             forceEndpoint |-> task.force_endpoint,
             triggerType |-> task.trigger_type]

\* serde_json::from_slice::<QueueTask>: [ok, task]; the tag picks the variant
\* and every field of the variant must be there, but for an Option field,
\* which is None when missing
DecodeTask(json) ==
    LET keys == DOMAIN json
        bad == [ok |-> FALSE, task |-> HealthCheck]
    IN  IF "type" \notin keys THEN bad
        ELSE CASE json.type = "healthCheck" -> [ok |-> TRUE, task |-> HealthCheck]
               [] json.type = "messageV1" ->
                    IF {"msgId", "appId", "endpointId", "triggerType",
                        "attemptCount"} \subseteq keys
                    THEN [ok |-> TRUE,
                          task |-> [variant |-> "MessageV1", msg_id |-> json.msgId,
                                    app_id |-> json.appId,
                                    endpoint_id |-> json.endpointId,
                                    trigger_type |-> json.triggerType,
                                    attempt_count |-> json.attemptCount]]
                    ELSE bad
               [] json.type = "messageBatch" ->
                    IF {"msgId", "appId", "triggerType"} \subseteq keys
                    THEN [ok |-> TRUE,
                          task |-> [variant |-> "MessageBatch",
                                    msg_id |-> json.msgId, app_id |-> json.appId,
                                    force_endpoint |->
                                        IF "forceEndpoint" \in keys
                                        THEN json.forceEndpoint ELSE "",
                                    trigger_type |-> json.triggerType]]
                    ELSE bad
               [] OTHER -> bad

\* Delivery::payload_serde_json: Ok(None) for no payload, Ok(Some(task)) for
\* a payload that decodes, Err otherwise
payload_serde_json(payload) ==
    IF ~payload.some THEN [ok |-> TRUE, some |-> FALSE, task |-> HealthCheck]
    ELSE LET r == DecodeTask(payload.json)
         IN  [ok |-> r.ok, some |-> r.ok, task |-> r.task]

\* payloads a producer of another deployed version (or a faulty transport)
\* leaves on the queue: an unknown variant tag, and a message with no
\* payload at all
ForeignPayloads ==
    { SomePayload([type |-> "messageV2"]),
      NonePayload }

\* ------------------------------------------------------- delivery identifier
\* KsuidMs::new(Some(ts), None).to_string(): the timestamp in milliseconds is
\* kept as whole seconds plus a byte of 4 ms steps, then come the random
\* bytes; the text encoding is fixed-width and keeps that order
KsuidMs_new(ts, rnd) == <<ts \div 1000, (ts % 1000) \div 4, rnd>>

\* "".to_string()
EmptyId == <<>>

\* Option<DateTime<Utc>>
NoneTs == [some |-> FALSE, ts |-> 0]
SomeTs(ts) == [some |-> TRUE, ts |-> ts]

\* enum Acker { Redis(..), RabbitMQ(..), Omni(..) }: the variant and the
\* transport message it finalizes
Acker(kind, msg) == [kind |-> kind, msg |-> msg]

\* TaskQueueDelivery::from_arc: a timestamp of None is the current time
from_arc(task, timestamp, acker, clock, rnd) ==
    [id |-> KsuidMs_new(IF timestamp.some THEN timestamp.ts ELSE clock, rnd),
     task |-> task,
     acker |-> acker]

\* impl TryFrom<Delivery> for TaskQueueDelivery
try_from(value) ==
    LET r == payload_serde_json(value.payload)
    IN  IF ~r.ok THEN [ok |-> FALSE, err |-> ErrQueue("Failed to decode queue task")]
        ELSE IF ~r.some
        THEN [ok |-> FALSE, err |-> ErrQueue("Unexpected empty delivery")]
        ELSE [ok |-> TRUE,
              d |-> [id |-> EmptyId, task |-> r.task,
                     acker |-> Acker("Omni", value)]]

\* ------------------------------------------------------------------- state
VARIABLES
    backend,    \* the variant new_pair built
    now,        \* the clock, in milliseconds
    queue,      \* the transport: messages enqueued and not yet handed out
    inflight,   \* the transport's bookkeeping of handed-out, unfinalized messages
    held,       \* the Deliveries the caller owns
    calls,      \* the send / ack / nack calls in progress
    lastRecv,   \* what the latest receive_all pulled and returned
    nextMid,    \* next transport message number
    sentOk,     \* history: messages whose send returned Ok
    acked,      \* history: messages a successful ack finalized
    nackedOk,   \* history: messages requeued by a successful nack, not yet returned again
    returned,   \* history: messages receive_all has returned in a Delivery
    finCalls,   \* history: per message, ack / nack calls on its current Delivery
    enq,        \* history: per message, successful transport enqueues by send
    stamp,      \* history: per message, the timestamp and identifier of its latest Delivery
    sentTask    \* history: per message, the task its send was given

vars == <<backend, now, queue, inflight, held, calls, lastRecv, nextMid,
          sentOk, acked, nackedOk, returned, finCalls, enq, stamp, sentTask>>

Mids == 1..MaxMsgs
Slots == 1..MaxCalls

\* Option<Duration>
NoDelay == [some |-> FALSE, d |-> 0]
SomeDelay(k) == [some |-> TRUE, d |-> k]
Delays == {NoDelay} \cup {SomeDelay(k) : k \in 1..MaxDelay}

NoCall == [op |-> "idle"]

\* the error of a call that returned Ok: none
NoErr == [typ |-> "none", msg |-> ""]

\* no send was given a task for the message (yet)
NoTask == [variant |-> "none"]

\* no Delivery with a generated identifier was built for the message yet
NoStamp == [some |-> FALSE]

\* Result<()>
Ok == [ok |-> TRUE]
Err(e) == [ok |-> FALSE, err |-> e]

\* the elements of a sequence
Range(s) == {s[i] : i \in 1..Len(s)}

\* how many messages of a sequence carry a message number
CopiesOf(ms, mid) == Cardinality({i \in 1..Len(ms) : ms[i].mid = mid})

\* the first n elements of a sequence
Take(s, n) == SubSeq(s, 1, IF Len(s) < n THEN Len(s) ELSE n)

\* a sequence without the elements of a set
Without(s, S) == SelectSeq(s, LAMBDA m : m \notin S)

\* ------------------------------------------------------------- transport
\* A transport message: its number, its payload, the delay its send asked
\* for, the clock when the transport accepted it and the clock from which
\* the transport shows it to consumers.
Msg(mid, payload, d, accAt, visAt) ==
    [mid |-> mid, payload |-> payload, delay |-> d, accAt |-> accAt,
     visAt |-> visAt]

\* the messages a consumer can see at `clock`, oldest first
TransportVisible(q, clock) == SelectSeq(q, LAMBDA m : m.visAt <= clock)

\* DynConsumer::receive_all(max, deadline): at most max visible messages
TransportReceiveAll(q, clock, max) == Take(TransportVisible(q, clock), max)

\* DynScheduledProducer::send_serde_json: visible at once
send_serde_json(q, mid, task, clock) ==
    Append(q, Msg(mid, SomePayload(EncodeTask(task)), 0, clock, clock))

\* DynScheduledProducer::send_serde_json_scheduled: visible after the delay
send_serde_json_scheduled(q, mid, task, d, clock) ==
    Append(q, Msg(mid, SomePayload(EncodeTask(task)), d, clock, clock + d))

\* RedisQueueProducer::send / rabbitmq::Producer::send (TaskQueueSend::send)
AdapterSend(q, mid, task, delay, clock) ==
    Append(q, Msg(mid, SomePayload(EncodeTask(task)), delay.d, clock,
                  clock + delay.d))

\* the closure of send with the Omni arm falling through: a delayed task is
\* scheduled and also sent at once
ProducerSendOnce_both(b, q, mid, task, delay, clock) ==
    CASE b = "Redis" -> AdapterSend(q, mid, task, delay, clock)
      [] b = "RabbitMq" -> AdapterSend(q, mid, task, delay, clock)
      [] b = "Omni" ->
            IF delay.some
            THEN send_serde_json(
                     send_serde_json_scheduled(q, mid, task, delay.d, clock),
                     mid, task, clock)
            ELSE send_serde_json(q, mid, task, clock)

\* the closure of TaskQueueProducer::send: one transport call that succeeds
ProducerSendOnce(b, q, mid, task, delay, clock) ==
    CASE b = "Redis" -> AdapterSend(q, mid, task, delay, clock)
      [] b = "RabbitMq" -> AdapterSend(q, mid, task, delay, clock)
      [] b = "Omni" ->
            IF delay.some
            THEN send_serde_json_scheduled(q, mid, task, delay.d, clock)
            ELSE send_serde_json(q, mid, task, clock)

\* a successful ack at the transport: the message leaves its bookkeeping
TransportAck(fl, msg) == fl \ {msg}

\* a successful nack at the transport: the message is visible again, at the
\* back of the queue
TransportNackQueue(q, msg, clock) ==
    Append(q, [msg EXCEPT !.visAt = clock])

\* an acknowledgment that is cumulative
BasicAckOptions_multiple == [multiple |-> TRUE]

\* BasicAckOptions { multiple: false }
BasicAckOptions == [multiple |-> FALSE]

\* a negative acknowledgment that does not ask for the message again
BasicNackOptions_no_requeue == [requeue |-> FALSE, multiple |-> FALSE]

\* BasicNackOptions { requeue: true, multiple: false }
BasicNackOptions == [requeue |-> TRUE, multiple |-> FALSE]

\* the unacknowledged messages of the channel an acknowledgment of `msg`
\* settles: with `multiple`, every message delivered up to that one
\* (delivery tags taken in the order of the message numbers)
Settled(fl, msg, multiple) ==
    IF multiple THEN {m \in fl : m.mid <= msg.mid} \cup {msg} ELSE {msg}

\* the messages of a set, by message number
OrderByMid(S) ==
    CHOOSE f \in [1..Cardinality(S) -> S] :
        \A i, j \in 1..Cardinality(S) : i < j => f[i].mid < f[j].mid

\* lapin Delivery::ack(options) on the channel: [inflight, queue] afterwards
lapin_ack(fl, q, msg, options) ==
    [inflight |-> fl \ Settled(fl, msg, options.multiple), queue |-> q]

\* lapin Delivery::nack(options) on the channel: the settled messages are
\* put on the queue again when `requeue` is set, and discarded otherwise
lapin_nack(fl, q, msg, options, clock) ==
    LET gone == OrderByMid(Settled(fl, msg, options.multiple))
    IN  [inflight |-> fl \ Settled(fl, msg, options.multiple),
         queue |-> IF options.requeue
                   THEN q \o [i \in 1..Len(gone) |->
                                 [gone[i] EXCEPT !.visAt = clock]]
                   ELSE q]

\* the transport call an attempt of ack / nack makes, with its arguments:
\* the Redis arm calls the queue with the Delivery's id and task, the
\* RabbitMQ arm calls the broker message with the options, the Omni arm
\* calls the handle
TransportCall(op, acker, id, task) ==
    CASE acker.kind = "Redis" -> [fn |-> op, id |-> id, task |-> task]
      [] acker.kind = "RabbitMQ" ->
            [fn |-> op, handle |-> acker.msg,
             options |-> IF op = "ack" THEN BasicAckOptions
                         ELSE BasicNackOptions]
      [] acker.kind = "Omni" -> [fn |-> op, handle |-> acker.msg]

\* the transport after a successful ack: [inflight, queue]
AckTransport(acker, fl, q) ==
    IF acker.kind = "RabbitMQ" THEN lapin_ack(fl, q, acker.msg, BasicAckOptions)
    ELSE [inflight |-> TransportAck(fl, acker.msg), queue |-> q]

\* the transport after a successful nack: [inflight, queue]
NackTransport(acker, fl, q, clock) ==
    IF acker.kind = "RabbitMQ"
    THEN lapin_nack(fl, q, acker.msg, BasicNackOptions, clock)
    ELSE [inflight |-> TransportAck(fl, acker.msg),
          queue |-> TransportNackQueue(q, acker.msg, clock)]

\* ------------------------------------------------------------ retry policy
\* Retry::run on the outcome of one attempt, `retryable` being what the
\* predicate given to Retry::new says of the error: Some(result) ends the
\* loop, None (after sleeping the next delay of the schedule) asks for
\* another attempt
Retry_run(retryable, retry, outcome) ==
    IF outcome.ok THEN [some |-> TRUE, result |-> outcome, retry |-> retry,
                        slept |-> <<>>]
    ELSE IF ~retryable
    THEN [some |-> TRUE, result |-> outcome, retry |-> retry, slept |-> <<>>]
    ELSE IF retry = <<>>
    THEN [some |-> TRUE, result |-> outcome, retry |-> retry, slept |-> <<>>]
    ELSE [some |-> FALSE, result |-> outcome, retry |-> Tail(retry),
          slept |-> <<Head(retry)>>]

\* a call starting with the delays of the schedule in the reverse order
Retry_new_reversed == <<40, 20, 10>>

\* Retry::new(should_retry, RETRY_SCHEDULE) / run_with_retries(.., should_retry,
\* RETRY_SCHEDULE): the schedule a call starts with
Retry_new == RETRY_SCHEDULE

\* Option<Acker>
NoAcker == [some |-> FALSE]
SomeAcker(a) == [some |-> TRUE, a |-> a]

\* the failures the transport makes on a call: n failures of kind typ, then
\* success
Scripts ==
    {[n |-> 0, typ |-> "Queue"]}
        \cup {[n |-> k, typ |-> t] : k \in 1..MaxFail, t \in ErrorTypes}

\* a call that starts with what the calls in progress have left of one
\* schedule they all share
NewCall_shared_budget(op, mid, task, delay, acker, script) ==
    LET others == {c \in DOMAIN calls : calls[c] # NoCall}
        left == IF others = {} THEN Len(Retry_new)
                ELSE Len(calls[CHOOSE c \in others :
                             \A o \in others :
                                 Len(calls[c].retry) <= Len(calls[o].retry)].retry)
    IN  [op |-> op, mid |-> mid, task |-> task, delay |-> delay, acker |-> acker,
         moved |-> NoAcker,
         retry |-> SubSeq(Retry_new, Len(Retry_new) - left + 1, Len(Retry_new)),
         waited |-> <<>>, tcalls |-> 0,
         script |-> script, pc |-> "attempt", result |-> Ok,
         id |-> EmptyId, tcall |-> [fn |-> "none"]]

\* a call of send, ack or nack, at its first attempt; id is self.id of ack
\* and nack, tcall the latest transport call of ack and nack
NewCall(op, mid, task, delay, acker, script) ==
    [op |-> op, mid |-> mid, task |-> task, delay |-> delay, acker |-> acker,
     moved |-> NoAcker, retry |-> Retry_new, waited |-> <<>>, tcalls |-> 0,
     script |-> script, pc |-> "attempt", result |-> Ok,
     id |-> EmptyId, tcall |-> [fn |-> "none"]]

\* what the transport answers to the call's latest attempt
TransportOutcome(call) ==
    IF call.tcalls <= call.script.n THEN Err(ErrTransport(call.script.typ))
    ELSE Ok

\* `loop { if let Some(result) = retry.run(..).await { return result; } }`
\* after an attempt: the call is done, or goes round the loop
RunStep(call, outcome) ==
    LET r == Retry_run(IF outcome.ok THEN FALSE ELSE should_retry(outcome.err),
                       call.retry, outcome)
    IN  [call EXCEPT !.retry = r.retry,
                     !.waited = call.waited \o r.slept,
                     !.result = outcome,
                     !.pc = IF r.some THEN "done" ELSE "attempt"]

\* ----------------------------------------------------------------- actions
\* new_pair: one backend, an empty transport, nothing received
Init ==
    /\ backend \in Backends
    /\ now = 0
    /\ queue = <<>>
    /\ inflight = {}
    /\ held = {}
    /\ calls = [c \in Slots |-> NoCall]
    /\ lastRecv = [ok |-> TRUE, avail |-> 0, pulled |-> <<>>, out |-> <<>>,
                   err |-> NoErr]
    /\ nextMid = 1
    /\ sentOk = {}
    /\ acked = {}
    /\ nackedOk = {}
    /\ returned = {}
    /\ finCalls = [m \in Mids |-> 0]
    /\ enq = [m \in Mids |-> 0]
    /\ stamp = [m \in Mids |-> NoStamp]
    /\ sentTask = [m \in Mids |-> NoTask]

\* a millisecond passes
Tick ==
    /\ now < MaxTime
    /\ now' = now + 1
    /\ UNCHANGED <<backend, queue, inflight, held, calls, lastRecv, nextMid,
                   sentOk, acked, nackedOk, returned, finCalls, enq,
                   stamp, sentTask>>

\* a payload this build cannot decode arrives on the transport
ForeignEnqueue(p) ==
    /\ nextMid <= MaxMsgs
    /\ queue' = Append(queue, Msg(nextMid, p, 0, now, now))
    /\ nextMid' = nextMid + 1
    /\ UNCHANGED <<backend, now, inflight, held, calls, lastRecv, sentOk, acked,
                   nackedOk, returned, finCalls, enq, stamp, sentTask>>

\* TaskQueueProducer::send is called
SendStart(c, task, delay, script) ==
    /\ calls[c] = NoCall
    /\ nextMid <= MaxMsgs
    /\ calls' = [calls EXCEPT
                   ![c] = NewCall("send", nextMid, task, delay, NoAcker, script)]
    /\ nextMid' = nextMid + 1
    /\ sentTask' = [sentTask EXCEPT ![nextMid] = task]
    /\ UNCHANGED <<backend, now, queue, inflight, held, lastRecv, sentOk, acked,
                   nackedOk, returned, finCalls, enq, stamp>>

\* TaskQueueProducer::send: the closure issues its transport call
SendAttempt(c) ==
    /\ calls[c] # NoCall
    /\ calls[c].op = "send"
    /\ calls[c].pc = "attempt"
    /\ calls' = [calls EXCEPT ![c].tcalls = @ + 1, ![c].pc = "await"]
    /\ UNCHANGED <<backend, now, queue, inflight, held, lastRecv, nextMid, sentOk,
                   acked, nackedOk, returned, finCalls, enq, stamp, sentTask>>

\* TaskQueueProducer::send: the transport call returns, run_with_retries
\* returns or sleeps and goes round
SendComplete(c) ==
    /\ calls[c] # NoCall
    /\ calls[c].op = "send"
    /\ calls[c].pc = "await"
    /\ LET call == calls[c]
           outcome == TransportOutcome(call)
           next == RunStep(call, outcome)
       IN  /\ queue' = IF outcome.ok
                       THEN ProducerSendOnce(backend, queue, call.mid, call.task,
                                             call.delay, now)
                       ELSE queue
           /\ calls' = [calls EXCEPT ![c] = next]
           /\ enq' = [enq EXCEPT ![call.mid] =
                         @ + CopiesOf(queue', call.mid) - CopiesOf(queue, call.mid)]
           /\ sentOk' = IF next.pc = "done" /\ next.result.ok
                        THEN sentOk \cup {call.mid} ELSE sentOk
    /\ UNCHANGED <<backend, now, inflight, held, lastRecv, nextMid, acked,
                   nackedOk, returned, finCalls, stamp, sentTask>>

\* send, ack or nack has returned: its locals are dropped
Return(c) ==
    /\ calls[c] # NoCall
    /\ calls[c].pc = "done"
    /\ calls' = [calls EXCEPT ![c] = NoCall]
    /\ UNCHANGED <<backend, now, queue, inflight, held, lastRecv, nextMid, sentOk,
                   acked, nackedOk, returned, finCalls, enq, stamp, sentTask>>

\* the message numbers of a sequence of messages
MidsOf(ms) == {ms[i].mid : i \in 1..Len(ms)}

\* a receive_all, Omni arm, that takes an empty batch for a failure
OmniReceiveAll_empty_is_error(pulled) ==
    LET rs == [i \in 1..Len(pulled) |-> try_from(pulled[i])]
        bad == {i \in 1..Len(pulled) : ~rs[i].ok}
    IN  IF pulled = <<>>
        THEN [ok |-> FALSE, pulled |-> pulled, out |-> <<>>,
              err |-> ErrQueue("Unexpected empty delivery")]
        ELSE IF bad = {}
        THEN [ok |-> TRUE, pulled |-> pulled,
              out |-> [i \in 1..Len(pulled) |-> rs[i].d]]
        ELSE [ok |-> FALSE, pulled |-> pulled, out |-> <<>>,
              err |-> rs[CHOOSE i \in bad : \A j \in bad : i <= j].err]

\* TaskQueueConsumer::receive_all, Omni arm, once the transport has handed
\* `pulled` over: every handle goes through try_from and the results are
\* collected into one Result, so the first Err is the result of the call
OmniReceiveAll(pulled) ==
    LET rs == [i \in 1..Len(pulled) |-> try_from(pulled[i])]
        bad == {i \in 1..Len(pulled) : ~rs[i].ok}
    IN  IF bad = {}
        THEN [ok |-> TRUE, pulled |-> pulled,
              out |-> [i \in 1..Len(pulled) |-> rs[i].d]]
        ELSE [ok |-> FALSE, pulled |-> pulled, out |-> <<>>,
              err |-> rs[CHOOSE i \in bad : \A j \in bad : i <= j].err]

\* RedisQueueConsumer::receive_all / rabbitmq::Consumer::receive_all: every
\* message that decodes becomes a Delivery built by from_arc, stamped with
\* its delivery time when it was delayed; the others are left out
AdapterReceiveAll(kind, pulled, clock, rnds) ==
    LET idx == {i \in 1..Len(pulled) : payload_serde_json(pulled[i].payload).some}
        mk(i) == from_arc(payload_serde_json(pulled[i].payload).task,
                          IF pulled[i].delay > 0 THEN SomeTs(pulled[i].visAt)
                          ELSE NoneTs,
                          Acker(kind, pulled[i]), clock, rnds[i])
        all == [i \in 1..Len(pulled) |->
                   IF i \in idx THEN mk(i) ELSE [id |-> EmptyId]]
    IN  [ok |-> TRUE, pulled |-> pulled,
         out |-> SelectSeq(all, LAMBDA d : d.id # EmptyId)]

\* the history kept of a receive_all that handed Deliveries to the caller,
\* with the number of messages that were visible when it was called
Received(r) ==
    /\ lastRecv' = [ok |-> r.ok, avail |-> Len(TransportVisible(queue, now)),
                    pulled |-> r.pulled, out |-> r.out,
                    err |-> IF r.ok THEN NoErr ELSE r.err]
    /\ held' = held \cup Range(r.out)
    /\ returned' = returned \cup {r.out[i].acker.msg.mid : i \in 1..Len(r.out)}
    /\ nackedOk' = nackedOk \ {r.out[i].acker.msg.mid : i \in 1..Len(r.out)}
    /\ finCalls' = [m \in DOMAIN finCalls |->
                      IF m \in {r.out[i].acker.msg.mid : i \in 1..Len(r.out)}
                      THEN 0 ELSE finCalls[m]]
    /\ stamp' = [m \in DOMAIN stamp |->
                   LET built == {i \in 1..Len(r.out) :
                                    /\ r.out[i].acker.msg.mid = m
                                    /\ r.out[i].id # EmptyId}
                   IN  IF built = {} THEN stamp[m]
                       ELSE LET d == r.out[CHOOSE i \in built : TRUE]
                            IN  [some |-> TRUE,
                                 ts |-> IF d.acker.msg.delay > 0
                                        THEN d.acker.msg.visAt ELSE now,
                                 id |-> d.id]]

\* TaskQueueConsumer::receive_all, Omni arm: the in-memory transport hands
\* its messages over and keeps nothing of them
ReceiveAllOmni ==
    /\ backend = "Omni"
    /\ LET pulled == TransportReceiveAll(queue, now, MAX_MESSAGES)
       IN  /\ queue' = Without(queue, Range(pulled))
           /\ Received(OmniReceiveAll(pulled))
    /\ UNCHANGED <<backend, now, inflight, calls, nextMid, sentOk, acked,
                   enq, sentTask>>

\* TaskQueueConsumer::receive_all, Redis and RabbitMq arms: the transport
\* keeps what it handed over in its in-flight bookkeeping
ReceiveAllAdapter ==
    /\ backend \in {"Redis", "RabbitMq"}
    /\ LET pulled == TransportReceiveAll(queue, now, MAX_MESSAGES)
           kind == IF backend = "Redis" THEN "Redis" ELSE "RabbitMQ"
       IN  /\ queue' = Without(queue, Range(pulled))
           /\ inflight' = inflight \cup Range(pulled)
           /\ \E seed \in 0..MaxRand :
                Received(AdapterReceiveAll(kind, pulled, now,
                    [i \in 1..Len(pulled) |-> (seed + i) % (MaxRand + 1)]))
    /\ UNCHANGED <<backend, now, calls, nextMid, sentOk, acked, enq, sentTask>>

\* TaskQueueConsumer::receive_all: the transport call itself fails
ReceiveAllFail ==
    /\ lastRecv' = [ok |-> FALSE, avail |-> Len(TransportVisible(queue, now)),
                    pulled |-> <<>>, out |-> <<>>,
                    err |-> ErrTransport("Queue")]
    /\ UNCHANGED <<backend, now, queue, inflight, held, calls, nextMid, sentOk,
                   acked, nackedOk, returned, finCalls, enq, stamp, sentTask>>

\* ------------------------------------------------------------ ack and nack
\* ack(&self) / nack(&self): the caller keeps the Delivery
HeldAfterFinalize_borrowed(h, d) == h

\* ack(self) / nack(self) take the Delivery by value: the caller no longer
\* has it
HeldAfterFinalize(h, d) == h \ {d}

\* the closure of ack up to its transport call: the slot must hold the
\* acker; the Omni handle is taken out of the slot and moved into the call
AckClosure(call) ==
    IF ~call.acker.some THEN [call EXCEPT !.pc = "panic"]
    ELSE IF call.acker.a.kind = "Omni"
    THEN [call EXCEPT !.moved = call.acker, !.acker = NoAcker,
                      !.tcalls = @ + 1, !.pc = "await",
                      !.tcall = TransportCall("ack", call.acker.a, call.id,
                                              call.task)]
    ELSE [call EXCEPT !.tcalls = @ + 1, !.pc = "await",
                      !.tcall = TransportCall("ack", call.acker.a, call.id,
                                              call.task)]

\* the closure of nack up to its transport call
NackClosure(call) ==
    IF ~call.acker.some THEN [call EXCEPT !.pc = "panic"]
    ELSE IF call.acker.a.kind = "Omni"
    THEN [call EXCEPT !.moved = call.acker, !.acker = NoAcker,
                      !.tcalls = @ + 1, !.pc = "await",
                      !.tcall = TransportCall("nack", call.acker.a, call.id,
                                              call.task)]
    ELSE [call EXCEPT !.tcalls = @ + 1, !.pc = "await",
                      !.tcall = TransportCall("nack", call.acker.a, call.id,
                                              call.task)]

\* the handle the call in flight is about
CallMsg(call) ==
    IF call.moved.some THEN call.moved.a.msg ELSE call.acker.a.msg

\* the acker the call in flight finalizes with
CallAcker(call) == IF call.moved.some THEN call.moved.a ELSE call.acker.a

\* a failed Omni ack / nack whose error path drops the handle
PutBack_dropped(call) == [call EXCEPT !.moved = NoAcker]

\* map_err of a failed Omni ack / nack: the handle the transport gave back
\* is put back in the slot
PutBack(call) ==
    IF call.moved.some
    THEN [call EXCEPT !.acker = call.moved, !.moved = NoAcker]
    ELSE call

\* a successful Omni ack / nack has consumed the handle
Consumed(call) == [call EXCEPT !.moved = NoAcker]

\* TaskQueueDelivery::ack is called on a Delivery the caller owns
AckStart(c, d, script) ==
    /\ calls[c] = NoCall
    /\ d \in held
    /\ held' = HeldAfterFinalize(held, d)
    /\ calls' = [calls EXCEPT
                   ![c] = [NewCall("ack", d.acker.msg.mid, d.task, NoDelay,
                                   SomeAcker(d.acker), script)
                             EXCEPT !.id = d.id]]
    /\ finCalls' = [finCalls EXCEPT ![d.acker.msg.mid] = @ + 1]
    /\ UNCHANGED <<backend, now, queue, inflight, lastRecv, nextMid, sentOk,
                   acked, nackedOk, returned, enq, stamp, sentTask>>

\* TaskQueueDelivery::ack: the closure runs up to its transport call
AckAttempt(c) ==
    /\ calls[c] # NoCall
    /\ calls[c].op = "ack"
    /\ calls[c].pc = "attempt"
    /\ calls' = [calls EXCEPT ![c] = AckClosure(calls[c])]
    /\ UNCHANGED <<backend, now, queue, inflight, held, lastRecv, nextMid, sentOk,
                   acked, nackedOk, returned, finCalls, enq, stamp, sentTask>>

\* TaskQueueDelivery::ack: the transport call returns; Retry::run returns the
\* result or sleeps and the loop goes round
AckComplete(c) ==
    /\ calls[c] # NoCall
    /\ calls[c].op = "ack"
    /\ calls[c].pc = "await"
    /\ LET call == calls[c]
           outcome == TransportOutcome(call)
           msg == CallMsg(call)
           after == AckTransport(CallAcker(call), inflight, queue)
       IN  /\ inflight' = IF outcome.ok THEN after.inflight ELSE inflight
           /\ queue' = IF outcome.ok THEN after.queue ELSE queue
           /\ acked' = IF outcome.ok THEN acked \cup {msg.mid} ELSE acked
           /\ calls' = [calls EXCEPT
                          ![c] = RunStep(IF outcome.ok THEN Consumed(call)
                                         ELSE PutBack(call), outcome)]
    /\ UNCHANGED <<backend, now, held, lastRecv, nextMid, sentOk,
                   nackedOk, returned, finCalls, enq, stamp, sentTask>>

\* TaskQueueDelivery::nack is called on a Delivery the caller owns
NackStart(c, d, script) ==
    /\ calls[c] = NoCall
    /\ d \in held
    /\ held' = HeldAfterFinalize(held, d)
    /\ calls' = [calls EXCEPT
                   ![c] = [NewCall("nack", d.acker.msg.mid, d.task, NoDelay,
                                   SomeAcker(d.acker), script)
                             EXCEPT !.id = d.id]]
    /\ finCalls' = [finCalls EXCEPT ![d.acker.msg.mid] = @ + 1]
    /\ UNCHANGED <<backend, now, queue, inflight, lastRecv, nextMid, sentOk,
                   acked, nackedOk, returned, enq, stamp, sentTask>>

\* TaskQueueDelivery::nack: the closure runs up to its transport call
NackAttempt(c) ==
    /\ calls[c] # NoCall
    /\ calls[c].op = "nack"
    /\ calls[c].pc = "attempt"
    /\ calls' = [calls EXCEPT ![c] = NackClosure(calls[c])]
    /\ UNCHANGED <<backend, now, queue, inflight, held, lastRecv, nextMid, sentOk,
                   acked, nackedOk, returned, finCalls, enq, stamp, sentTask>>

\* TaskQueueDelivery::nack: the transport call returns; on success the
\* message is on the queue again
NackComplete(c) ==
    /\ calls[c] # NoCall
    /\ calls[c].op = "nack"
    /\ calls[c].pc = "await"
    /\ LET call == calls[c]
           outcome == TransportOutcome(call)
           msg == CallMsg(call)
           after == NackTransport(CallAcker(call), inflight, queue, now)
       IN  /\ inflight' = IF outcome.ok THEN after.inflight ELSE inflight
           /\ queue' = IF outcome.ok THEN after.queue ELSE queue
           /\ nackedOk' = IF outcome.ok THEN nackedOk \cup {msg.mid}
                          ELSE nackedOk
           /\ calls' = [calls EXCEPT
                          ![c] = RunStep(IF outcome.ok THEN Consumed(call)
                                         ELSE PutBack(call), outcome)]
    /\ UNCHANGED <<backend, now, held, lastRecv, nextMid, sentOk, acked,
                   returned, finCalls, enq, stamp, sentTask>>

\* ----------------------------------------------------------- specification
Next ==
    \/ Tick
    \/ \E p \in ForeignPayloads : ForeignEnqueue(p)
    \/ \E c \in Slots, task \in SampleTasks, delay \in Delays, script \in Scripts :
         SendStart(c, task, delay, script)
    \/ \E c \in Slots : SendAttempt(c)
    \/ \E c \in Slots : SendComplete(c)
    \/ \E c \in Slots : Return(c)
    \/ ReceiveAllOmni
    \/ ReceiveAllAdapter
    \/ ReceiveAllFail
    \/ \E c \in Slots, d \in held, script \in Scripts : AckStart(c, d, script)
    \/ \E c \in Slots : AckAttempt(c)
    \/ \E c \in Slots : AckComplete(c)
    \/ \E c \in Slots, d \in held, script \in Scripts : NackStart(c, d, script)
    \/ \E c \in Slots : NackAttempt(c)
    \/ \E c \in Slots : NackComplete(c)

Spec == Init /\ [][Next]_vars

\* ------------------------------------------------------------- progress
\* the next step of the call in a slot: the closure runs up to its transport
\* call, or the awaited transport call returns
StepCall(c) ==
    \/ SendAttempt(c)
    \/ SendComplete(c)
    \/ AckAttempt(c)
    \/ AckComplete(c)
    \/ NackAttempt(c)
    \/ NackComplete(c)

\* the executor keeps polling a future that can make progress, and the
\* transport answers every call made to it
SpecLive == Spec /\ \A c \in Slots : WF_vars(StepCall(c))

\* ------------------------------------------------------ concurrent calls
\* one more call in progress than in the other runs: a cloned Producer and
\* the Deliveries of a batch are used from several tasks at once
ParSlots == 1..(MaxCalls + 1)

\* new_pair, with room for the concurrent calls
InitPar ==
    /\ backend \in Backends
    /\ now = 0
    /\ queue = <<>>
    /\ inflight = {}
    /\ held = {}
    /\ calls = [c \in ParSlots |-> NoCall]
    /\ lastRecv = [ok |-> TRUE, avail |-> 0, pulled |-> <<>>, out |-> <<>>,
                   err |-> NoErr]
    /\ nextMid = 1
    /\ sentOk = {}
    /\ acked = {}
    /\ nackedOk = {}
    /\ returned = {}
    /\ finCalls = [m \in Mids |-> 0]
    /\ enq = [m \in Mids |-> 0]
    /\ stamp = [m \in Mids |-> NoStamp]
    /\ sentTask = [m \in Mids |-> NoTask]

\* sends with no delay, receives, acks and nacks, overlapping
NextPar ==
    \/ \E c \in ParSlots, task \in SampleTasks, script \in Scripts :
         SendStart(c, task, NoDelay, script)
    \/ \E c \in ParSlots : SendAttempt(c)
    \/ \E c \in ParSlots : SendComplete(c)
    \/ \E c \in ParSlots : Return(c)
    \/ ReceiveAllOmni
    \/ ReceiveAllAdapter
    \/ \E c \in ParSlots, d \in held, script \in Scripts : AckStart(c, d, script)
    \/ \E c \in ParSlots : AckAttempt(c)
    \/ \E c \in ParSlots : AckComplete(c)
    \/ \E c \in ParSlots, d \in held, script \in Scripts : NackStart(c, d, script)
    \/ \E c \in ParSlots : NackAttempt(c)
    \/ \E c \in ParSlots : NackComplete(c)

SpecPar == InitPar /\ [][NextPar]_vars

\* ------------------------------------------------- a long queue of tasks
\* the transport after n sends with no delay have succeeded at clock 0: the
\* i-th message is the one the i-th send appended
Preload(b, n) ==
    [i \in 1..n |->
        ProducerSendOnce(b, <<>>, i,
                         MessageTask_new_task("M1", "A1", "E1", "Scheduled"),
                         NoDelay, 0)[1]]

\* new_pair, then up to MaxPending successful sends that have all returned
InitCap ==
    \E n \in 0..MaxPending :
        /\ backend \in Backends
        /\ now = 0
        /\ queue = Preload(backend, n)
        /\ inflight = {}
        /\ held = {}
        /\ calls = [c \in Slots |-> NoCall]
        /\ lastRecv = [ok |-> TRUE, avail |-> 0, pulled |-> <<>>, out |-> <<>>,
                       err |-> NoErr]
        /\ nextMid = n + 1
        /\ sentOk = 1..n
        /\ acked = {}
        /\ nackedOk = {}
        /\ returned = {}
        /\ finCalls = [m \in 1..n |-> 0]
        /\ enq = [m \in 1..n |-> 1]
        /\ stamp = [m \in 1..n |-> NoStamp]
        /\ sentTask = [m \in 1..n |->
                          MessageTask_new_task("M1", "A1", "E1", "Scheduled")]

\* the consumer's polling loop alone
NextCap ==
    \/ Tick
    \/ ReceiveAllOmni
    \/ ReceiveAllAdapter
    \/ ReceiveAllFail

SpecCap == InitCap /\ [][NextCap]_vars

\* ------------------------------------------- one task through the queue
\* a fresh pair; one task of any variant is sent with no delay, received and
\* acked, a second task of the sample following it
NextRT ==
    \/ \E c \in Slots, task \in AllTasks, script \in Scripts :
         nextMid = 1 /\ SendStart(c, task, NoDelay, script)
    \/ \E c \in Slots, task \in SampleTasks, script \in Scripts :
         nextMid > 1 /\ SendStart(c, task, NoDelay, script)
    \/ \E c \in Slots : SendAttempt(c)
    \/ \E c \in Slots : SendComplete(c)
    \/ \E c \in Slots : Return(c)
    \/ ReceiveAllOmni
    \/ ReceiveAllAdapter
    \/ \E c \in Slots, d \in held, script \in Scripts : AckStart(c, d, script)
    \/ \E c \in Slots : AckAttempt(c)
    \/ \E c \in Slots : AckComplete(c)

SpecRT == Init /\ [][NextRT]_vars

\* ------------------------------------------------------------------ claims
\* the calls of a kind that are in progress or have just returned
CallsOf(ops) == {c \in Slots : calls[c] # NoCall /\ calls[c].op \in ops}

\* the messages the transport still has: queued, or handed out and tracked
InTransport == MidsOf(queue) \cup {m.mid : m \in inflight}

\* the messages a Delivery owned by the caller is about
HeldMids == {d.acker.msg.mid : d \in held}

\* the messages an ack or nack that has not returned yet is about
FinalizingMids ==
    {calls[c].mid : c \in {x \in CallsOf({"ack", "nack"}) : calls[x].pc # "done"}}

\* C1: single finalize. No Delivery goes through more than one ack / nack
\* call, whatever the first call's outcome, and a Delivery that ack or nack
\* was called on is no longer in the caller's hands.
C1_SingleFinalize ==
    /\ \A m \in DOMAIN finCalls : finCalls[m] <= 1
    /\ HeldMids \cap FinalizingMids = {}
    /\ \A m \in HeldMids : finCalls[m] = 0

\* C1 witness: an ack that returned an error after its Delivery was consumed
C1_Witness ==
    \E c \in CallsOf({"ack"}) :
        /\ calls[c].pc = "done"
        /\ ~calls[c].result.ok
        /\ finCalls[calls[c].mid] = 1

\* C2: at-least-once. Every task whose send returned Ok and that no ack has
\* finalized is still on the transport, or in a Delivery the caller holds
\* or is finalizing.
C2_AtLeastOnce ==
    \A m \in sentOk \ acked :
        m \in InTransport \cup HeldMids \cup FinalizingMids

C4_OtherKindNotRetried ==
    \A c \in CallsOf({"send", "ack", "nack"}) :
        (calls[c].script.typ # "Queue" /\ calls[c].script.n >= 1)
            => /\ calls[c].tcalls <= 1
               /\ calls[c].waited = <<>>
               /\ calls[c].pc = "done"
                    => /\ ~calls[c].result.ok
                       /\ calls[c].result.err.typ = calls[c].script.typ
                       /\ calls[c].tcalls = 1

\* C4 witness: a send that returned the other-kind error of its first attempt
C4_Witness ==
    \E c \in CallsOf({"send"}) :
        /\ calls[c].pc = "done"
        /\ calls[c].script.typ = "Generic"
        /\ calls[c].script.n >= 2
        /\ ~calls[c].result.ok
        /\ calls[c].tcalls = 1

\* C5: nack requeues. A task a successful nack put back stays available on
\* the transport until a receive_all returns it; otherwise no later
\* receive_all can return it.
C5_NackRequeues == \A m \in nackedOk : m \in MidsOf(queue)

\* C6: delay ordering. No Delivery is returned before the delay of its send
\* has elapsed since the transport accepted it, and a task whose send
\* succeeded stays on the transport until a receive_all returns it (so that
\* a receive_all after the delay returns it).
C6_DelayOrdering ==
    /\ \A i \in 1..Len(lastRecv.out) :
         lastRecv.out[i].acker.msg.accAt + lastRecv.out[i].acker.msg.delay <= now
    /\ \A m \in sentOk \ returned : m \in MidsOf(queue)

\* C7: a batch with an item that fails to decode still returns its valid
\* items as Deliveries.
C7_DecodeFailureKeepsBatch ==
    \A i \in 1..Len(lastRecv.pulled) :
        payload_serde_json(lastRecv.pulled[i].payload).some
            => \E j \in 1..Len(lastRecv.out) :
                 lastRecv.out[j].acker.msg = lastRecv.pulled[i]

\* C9: send atomicity. A send that returned Ok has enqueued its task exactly
\* once, a send that returned an error has enqueued nothing, and no send
\* ever enqueues its task twice.
C9_SendOnce ==
    /\ \A m \in sentOk : enq[m] = 1
    /\ \A m \in DOMAIN enq : enq[m] <= 1 /\ CopiesOf(queue, m) <= 1
    /\ \A c \in CallsOf({"send"}) :
         calls[c].pc = "done"
            => IF calls[c].result.ok
               THEN calls[c].mid \in sentOk
               ELSE /\ enq[calls[c].mid] = 0
                    /\ calls[c].mid \notin MidsOf(queue)

\* C9 witness: a delayed send that returned Ok after two failed attempts
C9_Witness ==
    \E c \in CallsOf({"send"}) :
        /\ calls[c].pc = "done"
        /\ calls[c].result.ok
        /\ calls[c].delay.some
        /\ calls[c].tcalls = 3
        /\ enq[calls[c].mid] = 1

\* C10: every Delivery receive_all returns carries a generated, non-empty
\* identifier and an acker for the very handle it was received with.
C10_FullyFormed ==
    \A i \in 1..Len(lastRecv.out) :
        /\ lastRecv.out[i].id # EmptyId
        /\ lastRecv.out[i].acker.msg \in Range(lastRecv.pulled)
        /\ payload_serde_json(lastRecv.out[i].acker.msg.payload).task
             = lastRecv.out[i].task

\* the smaller of two numbers
Min(a, b) == IF a < b THEN a ELSE b

\* C8: batch cap. Whatever the backend and however many tasks are pending,
\* one receive_all returns at most 128 Deliveries, never more than were
\* available, and a successful call pulls all of them when fewer than 128
\* are available.
C8_BatchCap ==
    /\ Len(lastRecv.out) <= 128
    /\ Len(lastRecv.out) <= Len(lastRecv.pulled)
    /\ Len(lastRecv.pulled) <= lastRecv.avail
    /\ lastRecv.ok => Len(lastRecv.pulled) = Min(lastRecv.avail, 128)

\* C8 witness: 130 tasks were pending, the Omni receive_all returned 128 of
\* them and left 2 on the queue
C8_Witness ==
    /\ backend = "Omni"
    /\ lastRecv.avail = 130
    /\ Len(lastRecv.out) = 128
    /\ Len(queue) = 2

\* lexicographic order of two identifiers of the same width (the order of
\* their text)
IdLess(a, b) ==
    \E k \in 1..Len(a) :
        /\ \A j \in 1..(k - 1) : a[j] = b[j]
        /\ a[k] < b[k]

\* C11: identifier sortability. For any two Deliveries built by from_arc with
\* visibility timestamps t1 < t2, the identifier of the first compares
\* strictly less than the identifier of the second, whatever the random
\* parts and whichever was built first.
C11_IdSortable ==
    \A m1, m2 \in DOMAIN stamp :
        (stamp[m1].some /\ stamp[m2].some /\ stamp[m1].ts < stamp[m2].ts)
            => IdLess(stamp[m1].id, stamp[m2].id)

\* C12: round trip. For every task variant and field value, encoding then
\* decoding gives the task back; a task sent with no delay stays on the
\* queue, once, until a receive_all returns it; it is returned in exactly
\* one Delivery, whose task equals the task sent; and the ack of that
\* Delivery succeeds when the transport lets it.
C12_RoundTrip ==
    /\ \A task \in AllTasks : DecodeTask(EncodeTask(task)) = [ok |-> TRUE, task |-> task]
    /\ \A m \in sentOk \ returned : CopiesOf(queue, m) = 1
    /\ \A d \in held :
         /\ d.task = sentTask[d.acker.msg.mid]
         /\ \A e \in held : e.acker.msg.mid = d.acker.msg.mid => e = d
    /\ \A i \in 1..Len(lastRecv.out) :
         /\ lastRecv.out[i].task = sentTask[lastRecv.out[i].acker.msg.mid]
         /\ \A j \in 1..Len(lastRecv.out) :
              lastRecv.out[j].acker.msg.mid = lastRecv.out[i].acker.msg.mid
                  => j = i
    /\ \A c \in CallsOf({"ack"}) :
         /\ calls[c].task = sentTask[calls[c].mid]
         /\ (calls[c].pc = "done" /\ calls[c].script.n = 0)
              => (calls[c].result.ok /\ calls[c].mid \in acked)

\* C12 witness: a MessageV1 task with a non-zero attempt count went through
\* the Omni queue and the ack of its Delivery returned Ok
C12_Witness ==
    \E c \in CallsOf({"ack"}) :
        /\ backend = "Omni"
        /\ calls[c].pc = "done"
        /\ calls[c].result.ok
        /\ calls[c].mid \in sentOk
        /\ calls[c].task.variant = "MessageV1"
        /\ calls[c].task.attempt_count = 1
        /\ calls[c].task.endpoint_id = "E2"

\* the call in a slot has not returned yet
InProgress(c) == calls[c] # NoCall /\ calls[c].pc # "done"

\* the transport fails the call with a transport-kind error on every attempt
\* the schedule of three delays allows (four)
AlwaysFails(c) ==
    /\ calls[c] # NoCall
    /\ calls[c].script.typ = "Queue"
    /\ calls[c].script.n >= 4

\* C13: bounded retry terminates. A send, ack or nack whose transport call
\* fails with a transport-kind error on every attempt makes at most four
\* transport calls and returns; what it returns is the last failure, after
\* having waited 10, 20 and 40 ms, each once and in that order.
C13_BoundedRetry ==
    /\ [](\A c \in Slots :
            AlwaysFails(c)
                => /\ calls[c].tcalls <= 4
                   /\ \E k \in 0..3 : calls[c].waited = SubSeq(<<10, 20, 40>>, 1, k)
                   /\ calls[c].pc = "done"
                        => /\ ~calls[c].result.ok
                           /\ calls[c].result.err = ErrTransport("Queue")
                           /\ calls[c].tcalls = 4
                           /\ calls[c].waited = <<10, 20, 40>>)
    /\ \A c \in Slots :
         (InProgress(c) /\ AlwaysFails(c))
             ~> (calls[c] # NoCall /\ calls[c].pc = "done" /\ ~calls[c].result.ok)

\* C13 witness: a nack whose four transport calls all failed has returned the
\* failure, the three delays waited
C13_Witness ==
    \E c \in CallsOf({"nack"}) :
        /\ calls[c].script = [n |-> 4, typ |-> "Queue"]
        /\ calls[c].pc = "done"
        /\ ~calls[c].result.ok
        /\ calls[c].tcalls = 4
        /\ calls[c].waited = <<10, 20, 40>>

\* C14: handle ownership across retries. In ack and nack the slot holds the
\* handle at the start of every attempt, so the expect and the unreachable
\* arm are never hit; while the transport call of the Omni arm is awaited
\* the handle is out of the slot and in the call; a failed attempt leaves it
\* back in the slot; after a successful attempt the slot is empty, the
\* handle is gone and no other attempt follows.
C14_HandleOwnership ==
    \A c \in CallsOf({"ack", "nack"}) :
        LET call == calls[c]
            omni == backend = "Omni"
        IN  /\ call.pc # "panic"
            /\ call.pc = "attempt" => (call.acker.some /\ ~call.moved.some)
            /\ call.pc = "await"
                 => IF omni THEN ~call.acker.some /\ call.moved.some
                            /\ call.moved.a.kind = "Omni"
                    ELSE call.acker.some /\ ~call.moved.some
            /\ call.pc = "done"
                 => /\ ~call.moved.some
                    /\ call.result.ok => call.tcalls = call.script.n + 1
                    /\ omni => (call.acker.some <=> ~call.result.ok)
            /\ call.acker.some => call.acker.a.msg.mid = call.mid
            /\ call.moved.some => call.moved.a.msg.mid = call.mid

\* C14 witness: an Omni ack whose first attempt failed is about to make its
\* second attempt, the handle back in the slot
C14_Witness ==
    \E c \in CallsOf({"ack"}) :
        /\ backend = "Omni"
        /\ calls[c].pc = "attempt"
        /\ calls[c].tcalls = 1
        /\ calls[c].acker.some
        /\ calls[c].acker.a.kind = "Omni"

\* C15: retry count. A send, ack or nack that succeeded after its transport
\* call failed N consecutive times with a transport-kind error has made
\* exactly N + 1 transport calls (N retries) and waited exactly the first N
\* delays of 10, 20, 40 ms; an ack whose transport fails twice and then
\* succeeds returns Ok after exactly two retries.
C15_RetryCount ==
    \A c \in CallsOf({"send", "ack", "nack"}) :
        LET call == calls[c]
        IN  /\ (call.pc = "done" /\ call.result.ok /\ call.script.typ = "Queue")
                 => /\ call.tcalls = call.script.n + 1
                    /\ call.waited = SubSeq(<<10, 20, 40>>, 1, call.script.n)
            /\ (call.pc = "done" /\ call.script = [n |-> 2, typ |-> "Queue"])
                 => /\ call.result.ok
                    /\ call.tcalls = 3
                    /\ call.waited = <<10, 20>>

\* C15 witness: an ack whose transport failed twice and then succeeded has
\* returned Ok after two retries
C15_Witness ==
    \E c \in CallsOf({"ack"}) :
        /\ calls[c].script = [n |-> 2, typ |-> "Queue"]
        /\ calls[c].pc = "done"
        /\ calls[c].result.ok
        /\ calls[c].tcalls = 3
        /\ calls[c].waited = <<10, 20>>
        /\ calls[c].mid \in acked

\* what the return of the transport call of the ack / nack in a slot may do
\* to the channel: only the call's own message is settled, a nack puts it on
\* the queue again, a failed attempt changes nothing
SettlesOnlyItsOwn(c) ==
    LET call == calls[c]
        msg == CallMsg(call)
        ok == TransportOutcome(call).ok
    IN  /\ \A m \in inflight \ {msg} : m \in inflight'
        /\ \A i \in 1..Len(queue) : queue'[i] = queue[i]
        /\ held' = held
        /\ (ok /\ call.op = "ack")
             => (inflight' = inflight \ {msg} /\ queue' = queue)
        /\ (ok /\ call.op = "nack")
             => /\ inflight' = inflight \ {msg}
                /\ queue' = Append(queue, [msg EXCEPT !.visAt = now])
        /\ ~ok => (inflight' = inflight /\ queue' = queue)

\* C16: broker finalization is single-message. On the RabbitMq backend every
\* attempt of ack acknowledges only the Delivery's own message, every
\* attempt of nack negatively acknowledges only that message and has it
\* requeued, and every other message in flight stays as it was.
C16_BrokerSingleMessage ==
    [][\A c \in Slots :
          (/\ backend = "RabbitMq"
           /\ calls[c] # NoCall
           /\ calls[c].op \in {"ack", "nack"}
           /\ calls[c].pc = "await"
           /\ calls'[c] # calls[c])
              => SettlesOnlyItsOwn(c)]_vars

\* C16 witness: on the RabbitMq backend an ack has returned Ok on its second
\* attempt while another message that was sent is still in flight
C16_Witness ==
    \E c \in CallsOf({"ack"}) :
        /\ backend = "RabbitMq"
        /\ calls[c].pc = "done"
        /\ calls[c].result.ok
        /\ calls[c].tcalls = 2
        /\ calls[c].tcall.options = [multiple |-> FALSE]
        /\ \E m \in inflight : m.mid < calls[c].mid /\ m.mid \in sentOk

\* C17: decode failures and empty-delivery failures are not retryable. The
\* error receive_all returns for a handle whose payload is not a valid task
\* encoding, or that has no payload, is of a kind should_retry rejects.
C17_DecodeErrorNotRetryable ==
    (~lastRecv.ok /\ lastRecv.pulled # <<>>)
        => /\ lastRecv.err.msg \in {"Failed to decode queue task",
                                    "Unexpected empty delivery"}
           /\ ~should_retry(lastRecv.err)

\* identifiers a Delivery may carry
SomeIds ==
    {EmptyId, KsuidMs_new(1000, 0)}
        \cup {KsuidMs_new(t, r) : t \in 0..MaxTime, r \in 0..MaxRand}

\* C18: the identifier is never needed to finalize. Whatever the backend,
\* the transport call an attempt of ack or nack makes is the call a Delivery
\* with any other identifier (and the same task and acker) would make: the
\* identifier is no part of it.
C18_IdNotNeeded ==
    \A c \in CallsOf({"ack", "nack"}) :
        calls[c].pc = "await"
            => \A id \in SomeIds :
                 TransportCall(calls[c].op, CallAcker(calls[c]), id, calls[c].task)
                     = calls[c].tcall

\* C19: receive_all with no pending work. When nothing is available, a
\* receive_all whose transport call does not fail returns Ok with an empty
\* sequence of Deliveries, and the call can always return: an empty queue
\* is no error and does not hold the call.
C19_EmptyIsOk ==
    /\ (lastRecv.avail = 0 /\ lastRecv.err # ErrTransport("Queue"))
          => /\ lastRecv.ok
             /\ lastRecv.err = NoErr
             /\ lastRecv.pulled = <<>>
             /\ lastRecv.out = <<>>
    /\ TransportVisible(queue, now) = <<>>
          => ENABLED (ReceiveAllOmni \/ ReceiveAllAdapter)

\* C19 witness: after a batch was returned, a later receive_all on the Omni
\* backend found nothing available (a delayed task is not visible yet) and
\* returned Ok with no Delivery
C19_Witness ==
    /\ backend = "Omni"
    /\ returned # {}
    /\ queue # <<>>
    /\ lastRecv.ok
    /\ lastRecv.avail = 0
    /\ lastRecv.out = <<>>

\* the calls in progress or just returned, whatever the number of slots
AllCalls == {c \in DOMAIN calls : calls[c] # NoCall}

\* C20: retry budgets are per call. Every send, ack and nack starts with the
\* whole schedule of three delays and what it has left is the schedule less
\* the delays it has waited itself, whatever other calls, earlier or
\* overlapping, have used: a call whose transport fails N times with a
\* transport-kind error returns Ok iff N <= 3.
C20_BudgetPerCall ==
    \A c \in AllCalls :
        LET call == calls[c]
        IN  /\ call.waited \o call.retry = <<10, 20, 40>>
            /\ call.tcalls = 0 => call.retry = <<10, 20, 40>>
            /\ (call.pc = "done" /\ call.script.typ = "Queue")
                 => (call.result.ok <=> call.script.n <= 3)

\* C20 witness: a send and an ack in progress at the same time, each having
\* used all three retries of its own
C20_Witness ==
    \E c1, c2 \in AllCalls :
        /\ calls[c1].op = "send"
        /\ calls[c2].op = "ack"
        /\ calls[c1].pc = "await"
        /\ calls[c2].pc = "await"
        /\ calls[c1].waited = <<10, 20, 40>>
        /\ calls[c2].waited = <<10, 20, 40>>

====
